---- MODULE Spec2Model ----
(***************************************************************************)
(* A model of resource_manager: the Config path engine and validator       *)
(* (core/config.py) and the provider contract (core/provider_base.py,      *)
(* providers/local.py, providers/github/core.py).                          *)
(*                                                                         *)
(* JSON-like values are tagged records [k |-> kind, v |-> payload]:        *)
(*   "map"  : a function from key strings to values (a Python dict)        *)
(*   "list" : a sequence of values                                         *)
(*   "str"  : a string, "bool" : True or False, "null" : None.             *)
(* A dict key that is a Python int i (the code can create one, see         *)
(* SetWalk) is written "#i": no path segment of the model yields a key     *)
(* that starts with "#", so it never collides with a string key.           *)
(*                                                                         *)
(* A path string is modelled as the sequence of its dot-free segments      *)
(* (what key.split(".") returns) and a segment as a sequence of tokens     *)
(* whose concatenation is the segment's text; "[" and "]" are tokens of    *)
(* their own, and no two other tokens are adjacent.                        *)
(*                                                                         *)
(* Values are compared by value: the model has no aliasing between the     *)
(* caller's objects and the stored tree.                                   *)
(***************************************************************************)
EXTENDS Integers, Sequences, FiniteSets, TLC

VARIABLES
    cfg,     \* Config._config
    alive,   \* TRUE once a constructor call has returned a Config object
    last,    \* the last Config operation: its inputs and its outcome
    nops,    \* number of mutating calls made on the Config object
    prov,    \* the Provider object under test (its fields)
    fs,      \* the filesystem: the source tree and the target directory
    net,     \* the HTTP requests issued so far, in order
    plast    \* the last provider operation: its inputs and its outcome

cvars == <<cfg, alive, last, nops>>
pvars == <<prov, fs, net, plast>>
vars == <<cfg, alive, last, nops, prov, fs, net, plast>>

----------------------------------------------------------------------------
(* Values *)

Str(s) == [k |-> "str", v |-> s]
Map(f) == [k |-> "map", v |-> f]
Lst(q) == [k |-> "list", v |-> q]
Bool(b) == [k |-> "bool", v |-> b]
Null == [k |-> "null", v |-> "None"]
EmptyMap == Map(<<>>)
EmptyList == Lst(<<>>)

IsMap(x) == x.k = "map"
IsList(x) == x.k = "list"
IsStr(x) == x.k = "str"

Has(m, key) == key \in DOMAIN m.v
MapPut(m, key, val) ==
    Map([x \in (DOMAIN m.v) \cup {key} |-> IF x = key THEN val ELSE m.v[x]])
\* dict.get(key, default)
MapGet(m, key, default) == IF Has(m, key) THEN m.v[key] ELSE default

\* bool(x) for the kinds of the model
Truthy(x) ==
    CASE x.k = "map" -> DOMAIN x.v # {}
      [] x.k = "list" -> Len(x.v) > 0
      [] x.k = "str" -> x.v # ""
      [] x.k = "bool" -> x.v
      [] OTHER -> FALSE

\* len(x); only called on map, list and str
PyLen(x) ==
    CASE x.k = "map" -> Cardinality(DOMAIN x.v)
      [] x.k = "list" -> Len(x.v)
      [] x.k = "str" -> Len(x.v)

\* the dict key the code uses for the Python int i
IntKey(i) == "#" \o ToString(i)

----------------------------------------------------------------------------
(* Path segments: k.split("["), int(index.rstrip("]")) *)

HasTok(seg, t) == \E i \in DOMAIN seg : seg[i] = t
\* "[" in k and "]" in k
IsIndexed(seg) == HasTok(seg, "[") /\ HasTok(seg, "]")
NumOpen(seg) == Cardinality({i \in DOMAIN seg : seg[i] = "["})

RECURSIVE Join(_)
Join(toks) == IF toks = <<>> THEN "" ELSE Head(toks) \o Join(Tail(toks))

OpenPos(seg) == CHOOSE i \in DOMAIN seg : seg[i] = "["
\* the two parts of k.split("[") when there is exactly one "["
ArrayKey(seg) == Join(SubSeq(seg, 1, OpenPos(seg) - 1))
IndexText(seg) == SubSeq(seg, OpenPos(seg) + 1, Len(seg))

RECURSIVE RStrip(_)
RStrip(toks) ==
    IF toks # <<>> /\ toks[Len(toks)] = "]"
    THEN RStrip(SubSeq(toks, 1, Len(toks) - 1))
    ELSE toks

IntLits == {"0", "1", "2", "-1"}
IntOf(tok) ==
    CASE tok = "0" -> 0
      [] tok = "1" -> 1
      [] tok = "2" -> 2
      [] tok = "-1" -> -1

\* int(text) succeeds
IsIntText(toks) == Len(toks) = 1 /\ toks[1] \in IntLits

\* the segment parses: the tuple unpacking and int() both succeed
ParseOk(seg) == NumOpen(seg) = 1 /\ IsIntText(RStrip(IndexText(seg)))
SegIndex(seg) == IntOf(RStrip(IndexText(seg))[1])

----------------------------------------------------------------------------
(* Results of a call: the value (or the tree it leaves) and how it ended *)

Ok(x) == [v |-> x, e |-> "ok", m |-> ""]
Raise(x, err, msg) == [v |-> x, e |-> err, m |-> msg]

----------------------------------------------------------------------------
(* Config.get *)

\* value[array_key][index] on a list, Python indexing (negative from the end)
ListAt(q, idx) == IF idx >= 0 THEN q[idx + 1] ELSE q[Len(q) + idx + 1]
ListIndexOk(q, idx) == IF idx >= 0 THEN idx < Len(q) ELSE Len(q) + idx >= 0

RECURSIVE GetWalk(_, _, _)
GetWalk(value, keys, default) ==
    IF keys = <<>> THEN Ok(value)
    ELSE LET k == Head(keys) IN
      IF ~IsMap(value) THEN Ok(default)
      ELSE IF IsIndexed(k)
      THEN IF ~ParseOk(k) THEN Raise(Null, "ValueError", "path")
           ELSE LET ak == ArrayKey(k)
                    idx == SegIndex(k)
                IN IF ~Has(value, ak) \/ ~IsList(value.v[ak]) THEN Ok(default)
                   ELSE IF idx >= Len(value.v[ak].v) THEN Ok(default)
                   ELSE IF ~ListIndexOk(value.v[ak].v, idx)
                   THEN Raise(Null, "IndexError", "")
                   ELSE GetWalk(ListAt(value.v[ak].v, idx), Tail(keys), default)
      ELSE GetWalk(MapGet(value, Join(k), default), Tail(keys), default)

Get(c, path, default) == GetWalk(c, path, default)

----------------------------------------------------------------------------
(* Config._validate_config: the tree it leaves and whether it raised *)

\* the name check left out
GithubEntryErrorNoName(p) ==
    IF ~IsMap(p) THEN "GitHub provider must be a dictionary"
    ELSE IF ~Has(p, "url") THEN "GitHub provider must have a URL"
    ELSE ""

GithubEntryError(p) ==
    IF ~IsMap(p) THEN "GitHub provider must be a dictionary"
    ELSE IF ~Has(p, "name") THEN "GitHub provider must have a name"
    ELSE IF ~Has(p, "url") THEN "GitHub provider must have a URL"
    ELSE ""

LocalEntryError(p) ==
    IF ~IsMap(p) THEN "Local provider must be a dictionary"
    ELSE IF ~Has(p, "name") THEN "Local provider must have a name"
    ELSE IF ~Has(p, "path") THEN "Local provider must have a path"
    ELSE ""

\* the message of the first entry of q that fails, "" when none does
FirstError(q, Check(_)) ==
    IF \E i \in DOMAIN q : Check(q[i]) # ""
    THEN Check(q[CHOOSE i \in DOMAIN q :
                    /\ Check(q[i]) # ""
                    /\ \A j \in DOMAIN q : j < i => Check(q[j]) = ""])
    ELSE ""

\* a list of methods that was not extended when gitcli was added
valid_methods_without_gitcli == {Str("default"), Str("auto"), Str("dotenv")}

valid_methods == {Str("default"), Str("auto"), Str("dotenv"), Str("gitcli")}

DefaultAuth == Map([github |-> Map([method |-> Str("auto")])])
DefaultGithubAuth == Map([method |-> Str("auto")])

ValidateAuth(c) ==
    LET c1 == IF ~Has(c, "auth") THEN MapPut(c, "auth", DefaultAuth) ELSE c
        auth == c1.v["auth"]
    IN IF ~IsMap(auth) THEN Raise(c1, "ValueError", "Auth must be a dictionary")
       ELSE LET auth1 == IF ~Has(auth, "github")
                         THEN MapPut(auth, "github", DefaultGithubAuth)
                         ELSE auth
                c2 == MapPut(c1, "auth", auth1)
                github_auth == auth1.v["github"]
            IN IF ~IsMap(github_auth)
               THEN Raise(c2, "ValueError", "GitHub auth must be a dictionary")
               ELSE IF MapGet(github_auth, "method", Str("auto")) \notin valid_methods
               THEN Raise(c2, "ValueError", "Invalid auth method")
               ELSE Ok(c2)

\* both provider types reset when either is missing
InitProviderTypesReset(providers) ==
    IF ~Has(providers, "github") \/ ~Has(providers, "local")
    THEN Map([github |-> EmptyList, local |-> EmptyList])
    ELSE providers

\* "Initialize provider types if not present"
InitProviderTypes(providers) ==
    LET p1 == IF ~Has(providers, "github")
              THEN MapPut(providers, "github", EmptyList) ELSE providers
    IN IF ~Has(p1, "local") THEN MapPut(p1, "local", EmptyList) ELSE p1

ValidateProviders(c) ==
    LET c1 == IF ~Has(c, "providers")
              THEN MapPut(c, "providers", Map([github |-> EmptyList, local |-> EmptyList]))
              ELSE c
        providers == c1.v["providers"]
    IN IF ~IsMap(providers)
       THEN Raise(c1, "ValueError", "Providers must be a dictionary")
       ELSE LET p2 == InitProviderTypes(providers)
                c2 == MapPut(c1, "providers", p2)
                github_providers == p2.v["github"]
                local_providers == p2.v["local"]
            IN IF ~IsList(github_providers)
               THEN Raise(c2, "ValueError", "GitHub providers must be a list")
               ELSE IF FirstError(github_providers.v, GithubEntryError) # ""
               THEN Raise(c2, "ValueError", FirstError(github_providers.v, GithubEntryError))
               ELSE IF ~IsList(local_providers)
               THEN Raise(c2, "ValueError", "Local providers must be a list")
               ELSE IF FirstError(local_providers.v, LocalEntryError) # ""
               THEN Raise(c2, "ValueError", FirstError(local_providers.v, LocalEntryError))
               ELSE Ok(c2)

Validate(c) ==
    IF ~IsMap(c) THEN Raise(c, "ValueError", "Configuration must be a dictionary")
    ELSE LET r == ValidateProviders(c)
         IN IF r.e # "ok" THEN r ELSE ValidateAuth(r.v)

----------------------------------------------------------------------------
(* Config.set: the walk returns the tree it leaves (writes made before an   *)
(* exception stay) and how it ended                                         *)

\* while len(config[array_key]) <= index: config[array_key].append({})
RECURSIVE Pad(_, _)
Pad(q, idx) == IF Len(q) <= idx THEN Pad(Append(q, EmptyMap), idx) ELSE q

ListPos(q, idx) == IF idx >= 0 THEN idx + 1 ELSE Len(q) + idx + 1

\* list.insert(index, value) in place of the item assignment
ListInsert(q, idx, value) ==
    SubSeq(q, 1, ListPos(q, idx) - 1) \o <<value>> \o SubSeq(q, ListPos(q, idx), Len(q))

\* config[array_key][index] = value
ListStore(q, idx, value) == [q EXCEPT ![ListPos(q, idx)] = value]

\* what config[array_key][index] (a read) does on a str: a one-character str
CharOf(x) == Str("c")

RECURSIVE SetWalk(_, _, _)
\* one indexed segment k of the walk, on the dict config
SetIndexed(config, k, rest, value) ==
    LET ak == ArrayKey(k)
        idx == SegIndex(k)
        isLast == rest = <<>>
        c1 == IF ~Has(config, ak) THEN MapPut(config, ak, EmptyList) ELSE config
        x == c1.v[ak]
    IN CASE IsList(x) ->
              LET q == Pad(x.v, idx)
                  cq == MapPut(c1, ak, Lst(q))
              IN IF ~ListIndexOk(q, idx) THEN Raise(cq, "IndexError", "")
                 ELSE IF isLast
                 THEN Ok(MapPut(c1, ak, Lst(ListStore(q, idx, value))))
                 ELSE LET r == SetWalk(q[ListPos(q, idx)], rest, value)
                      IN [r EXCEPT !.v =
                            MapPut(c1, ak, Lst([q EXCEPT ![ListPos(q, idx)] = r.v]))]
         [] IsMap(x) ->
              IF PyLen(x) <= idx THEN Raise(c1, "AttributeError", "append")
              ELSE IF isLast THEN Ok(MapPut(c1, ak, MapPut(x, IntKey(idx), value)))
              ELSE IF ~Has(x, IntKey(idx)) THEN Raise(c1, "KeyError", "")
              ELSE LET r == SetWalk(x.v[IntKey(idx)], rest, value)
                   IN [r EXCEPT !.v = MapPut(c1, ak, MapPut(x, IntKey(idx), r.v))]
         [] IsStr(x) ->
              IF PyLen(x) <= idx THEN Raise(c1, "AttributeError", "append")
              ELSE IF isLast THEN Raise(c1, "TypeError", "")
              ELSE IF ~(idx >= 0 \/ PyLen(x) + idx >= 0) THEN Raise(c1, "IndexError", "")
              ELSE [SetWalk(CharOf(x), rest, value) EXCEPT !.v = c1]
         [] OTHER -> Raise(c1, "TypeError", "len")

SetWalk(config, keys, value) ==
    LET k == Head(keys)
        rest == Tail(keys)
    IN IF IsIndexed(k) /\ ~ParseOk(k) THEN Raise(config, "ValueError", "path")
       ELSE IF ~IsMap(config) THEN Raise(config, "TypeError", "")
       ELSE IF IsIndexed(k) THEN SetIndexed(config, k, rest, value)
       ELSE IF rest = <<>> THEN Ok(MapPut(config, Join(k), value))
       ELSE LET c1 == IF ~Has(config, Join(k))
                      THEN MapPut(config, Join(k), EmptyMap) ELSE config
                r == SetWalk(c1.v[Join(k)], rest, value)
            IN [r EXCEPT !.v = MapPut(c1, Join(k), r.v)]

\* Config.set: the walk, then self._validate_config()
Set(c, path, value) ==
    LET w == SetWalk(c, path, value)
    IN IF w.e # "ok" THEN w ELSE Validate(w.v)

\* Config.__setitem__
SetItem(c, key, value) == Validate(MapPut(c, key, value))

\* Config.__init__: self._config = config_data or {}
Construct(data) == Validate(IF Truthy(data) THEN data ELSE EmptyMap)

----------------------------------------------------------------------------
(* Inputs of the Config operations *)

MaxOps == 2

P(key) == <<key>>
Ix(key, i) == <<key, "[", i, "]">>

GhEntry == Map([name |-> Str("gh"), url |-> Str("https://github.com/o/r")])
LocEntry == Map([name |-> Str("loc"), path |-> Str("./res")])
Providers(gh, loc) == Map([github |-> Lst(gh), local |-> Lst(loc)])
AuthOf(method) == Map([github |-> Map([method |-> method])])

\* config_data handed to Config(...)
InitData ==
    { Null,
      EmptyMap,
      Lst(<<Str("x")>>),
      Map([providers |-> EmptyList]),
      Map([providers |-> EmptyMap]),
      Map([providers |-> Map([local |-> Lst(<<LocEntry>>)])]),
      Map([providers |-> Map([github |-> Lst(<<GhEntry>>)])]),
      Map([providers |-> Map([github |-> Lst(<<Map([url |-> Str("u")])>>)])]),
      Map([providers |-> Map([github |-> Lst(<<GhEntry, Map([name |-> Str("n")])>>)])]),
      Map([providers |-> Map([local |-> Lst(<<Map([path |-> Str("p")])>>)])]),
      Map([providers |-> Map([local |-> Lst(<<Map([name |-> Str("n")])>>)])]),
      Map([providers |-> Providers(<<GhEntry>>, <<LocEntry>>),
           cache |-> Map([enabled |-> Str("True")])]),
      Map([auth |-> EmptyMap]),
      Map([auth |-> Map([github |-> EmptyMap])]),
      Map([auth |-> Str("auto")]) }
    \cup { Map([auth |-> AuthOf(Str(m))]) :
             m \in {"default", "auto", "dotenv", "gitcli", "bogus"} }

SetPaths ==
    { <<P("providers")>>,
      <<P("providers"), Ix("github", "0")>>,
      <<P("providers"), Ix("github", "1"), P("url")>>,
      <<P("auth"), P("github")>>,
      <<P("auth"), P("github"), P("method")>>,
      <<P("auth"), P("github"), P("method"), P("x")>>,
      <<Ix("auth", "0")>>,
      <<Ix("x", "1")>>,
      <<Ix("x", "1"), P("y")>>,
      <<Ix("x", "-1")>>,
      <<Ix("x", "y")>> }

SetValues == { Str("auto"), Str("bogus"), EmptyMap, GhEntry }

ItemKeys == { "providers", "auth" }

GetPaths ==
    { <<P("auth"), P("github"), P("method")>>,
      <<P("providers"), Ix("github", "0"), P("name")>>,
      <<P("providers"), Ix("github", "-1")>>,
      <<P("x"), P("method")>>,
      <<Ix("x", "1")>>,
      <<Ix("auth", "0")>>,
      <<Ix("x", "y")>> }

GetDefaults == { Null, Map([method |-> Str("m")]) }

\* a path of the grammar of the spec: every segment is a key, or a key with
\* one bracketed non-negative integer
WellFormedSeg(seg) ==
    \/ Len(seg) = 1 /\ seg[1] \notin {"[", "]"}
    \/ /\ Len(seg) = 4 /\ seg[1] \notin {"[", "]"} /\ seg[2] = "[" /\ seg[4] = "]"
       /\ seg[3] \in IntLits /\ IntOf(seg[3]) >= 0
WellFormed(path) == path # <<>> /\ \A i \in DOMAIN path : WellFormedSeg(path[i])

----------------------------------------------------------------------------
(* The Config object as a state machine *)

\* op, path, val: the call; res: what it returned or raised; pre: the tree
\* before it; checked: _validate_config ran; rep: the call repeats the
\* previous one, a set(path, val) that returned
NoOp == [op |-> "none", path |-> <<>>, val |-> Null, res |-> Ok(Null),
         pre |-> Null, checked |-> FALSE, rep |-> FALSE]

\* no Config yet; the provider variables stay idle in this specification
CInit ==
    /\ cfg = Null /\ alive = FALSE /\ last = NoOp /\ nops = 0
    /\ prov = Null /\ fs = Null /\ net = <<>> /\ plast = Null

\* Config(data): on an exception no object exists
CConstruct(data) ==
    /\ ~alive /\ last.op = "none"
    /\ LET r == Construct(data)
       IN /\ cfg' = r.v
          /\ alive' = (r.e = "ok")
          /\ last' = [op |-> "init", path |-> <<>>, val |-> data, res |-> r,
                      pre |-> Null, checked |-> TRUE, rep |-> FALSE]
    /\ nops' = 0
    /\ UNCHANGED pvars

\* c.set(path, value): the tree keeps what was written, also on an exception
CSet(path, value) ==
    /\ alive /\ nops < MaxOps
    /\ LET r == Set(cfg, path, value)
       IN /\ cfg' = r.v
          /\ last' = [op |-> "set", path |-> path, val |-> value, res |-> r,
                      pre |-> cfg,
                      checked |-> SetWalk(cfg, path, value).e = "ok",
                      rep |-> /\ last.op = "set" /\ last.res.e = "ok"
                              /\ last.path = path /\ last.val = value]
    /\ nops' = nops + 1
    /\ UNCHANGED <<alive, pvars>>

\* c[key] = value
CSetItem(key, value) ==
    /\ alive /\ nops < MaxOps
    /\ LET r == SetItem(cfg, key, value)
       IN /\ cfg' = r.v
          /\ last' = [op |-> "setitem", path |-> <<P(key)>>, val |-> value, res |-> r,
                      pre |-> cfg, checked |-> TRUE, rep |-> FALSE]
    /\ nops' = nops + 1
    /\ UNCHANGED <<alive, pvars>>

\* c.get(path, default)
CGet(path, default) ==
    /\ alive /\ nops < MaxOps
    /\ last' = [op |-> "get", path |-> path, val |-> default,
                res |-> Get(cfg, path, default), pre |-> cfg,
                checked |-> FALSE, rep |-> FALSE]
    /\ nops' = nops + 1
    /\ UNCHANGED <<cfg, alive, pvars>>

CNext ==
    \/ \E d \in InitData : CConstruct(d)
    \/ \E p \in SetPaths, v \in SetValues : CSet(p, v)
    \/ \E key \in ItemKeys, v \in SetValues : CSetItem(key, v)
    \/ \E p \in GetPaths, d \in GetDefaults : CGet(p, d)

SpecConfig == CInit /\ [][CNext]_vars

----------------------------------------------------------------------------
(* Claims about Config *)

Mutating == {"init", "set", "setitem"}
MethodPath == <<P("auth"), P("github"), P("method")>>
ClaimMethods == {Str("default"), Str("auto"), Str("dotenv"), Str("gitcli")}

EntriesHave(x, f1, f2) ==
    /\ IsList(x)
    /\ \A i \in DOMAIN x.v : IsMap(x.v[i]) /\ Has(x.v[i], f1) /\ Has(x.v[i], f2)

\* the structural invariants of the data model
StructOK(c) ==
    /\ IsMap(c) /\ Has(c, "providers") /\ IsMap(c.v["providers"])
    /\ Has(c.v["providers"], "github") /\ Has(c.v["providers"], "local")
    /\ EntriesHave(c.v["providers"].v["github"], "name", "url")
    /\ EntriesHave(c.v["providers"].v["local"], "name", "path")
    /\ Get(c, MethodPath, Null).e = "ok"
    /\ Get(c, MethodPath, Null).v \in ClaimMethods

\* C1: after any sequence of Config operations, also one that raised, the
\* configuration a caller can observe satisfies the structural invariants.
C1_ObservableConfigValid == alive => StructOK(cfg)

\* C2: when set(P, V) on a well-formed path returns, get(P) returns V.
C2_SetGetRoundTrip ==
    (last.op = "set" /\ last.res.e = "ok" /\ WellFormed(last.path))
        => Get(cfg, last.path, Null) = Ok(last.val)

\* the path resolves in the tree: every segment finds its key in a mapping
\* and, when indexed, an element of a sequence at an index inside it
RECURSIVE Resolves(_, _)
Resolves(value, keys) ==
    \/ keys = <<>>
    \/ /\ IsMap(value) /\ WellFormedSeg(Head(keys))
       /\ LET k == Head(keys) IN
          IF Len(k) = 1
          THEN Has(value, k[1]) /\ Resolves(value.v[k[1]], Tail(keys))
          ELSE /\ Has(value, k[1]) /\ IsList(value.v[k[1]])
               /\ IntOf(k[3]) < Len(value.v[k[1]].v)
               /\ Resolves(value.v[k[1]].v[IntOf(k[3]) + 1], Tail(keys))

\* C3: get(path, default) never raises, and returns the default whenever the
\* path does not resolve. Stated on the well-formed paths, which the claim
\* includes and where no path error is at issue.
C3_GetNeverRaises ==
    (last.op = "get" /\ WellFormed(last.path)) =>
        /\ last.res.e = "ok"
        /\ ~Resolves(last.pre, last.path) => last.res.v = last.val

\* C4: set on a well-formed path raises only when the configuration it leaves
\* is structurally invalid (the validator rejects it).
C4_SetRaisesOnlyIfInvalid ==
    (last.op = "set" /\ WellFormed(last.path) /\ last.res.e # "ok")
        => Validate(cfg).e # "ok"

\* C5: a set(P, V) that repeats a set(P, V) that returned also returns, and
\* leaves the whole tree as the first call left it.
C5_SetIdempotent ==
    (last.op = "set" /\ last.rep /\ WellFormed(last.path))
        => last.res.e = "ok" /\ cfg = last.pre

\* the repeated call went through a sequence that the first call had padded
C5_Witness ==
    /\ last.op = "set" /\ last.rep /\ last.res.e = "ok"
    /\ last.path = <<Ix("x", "1"), P("y")>>
    /\ cfg.v["x"] = Lst(<<EmptyMap, Map([y |-> last.val])>>)

\* the constructor's input has no method: it omits auth, auth.github or the
\* method field inside auth.github
OmitsMethod(data) ==
    \/ ~IsMap(data) \/ ~Has(data, "auth")
    \/ IsMap(data.v["auth"]) /\ ~Has(data.v["auth"], "github")
    \/ /\ IsMap(data.v["auth"]) /\ Has(data.v["auth"], "github")
       /\ IsMap(data.v["auth"].v["github"])
       /\ ~Has(data.v["auth"].v["github"], "method")

\* C6: after a successful construction get('auth.github.method') is one of the
\* four methods, and it is 'auto' when the input had no method.
C6_MethodPopulated ==
    (last.op = "init" /\ alive) =>
        /\ Get(cfg, MethodPath, Null).v \in ClaimMethods
        /\ OmitsMethod(last.val) => Get(cfg, MethodPath, Null).v = Str("auto")

LacksField(x, f1, f2) ==
    IsList(x) /\ \E i \in DOMAIN x.v :
        IsMap(x.v[i]) /\ (~Has(x.v[i], f1) \/ ~Has(x.v[i], f2))

\* providers is not a mapping, or a github entry lacks name or url, or a local
\* entry lacks name or path
ProvidersDefect(c) ==
    /\ IsMap(c) /\ Has(c, "providers")
    /\ \/ ~IsMap(c.v["providers"])
       \/ /\ IsMap(c.v["providers"])
          /\ \/ /\ Has(c.v["providers"], "github")
                /\ LacksField(c.v["providers"].v["github"], "name", "url")
             \/ /\ Has(c.v["providers"], "local")
                /\ LacksField(c.v["providers"].v["local"], "name", "path")

MethodPresent(c) ==
    /\ IsMap(c) /\ Has(c, "auth") /\ IsMap(c.v["auth"])
    /\ Has(c.v["auth"], "github") /\ IsMap(c.v["auth"].v["github"])
    /\ Has(c.v["auth"].v["github"], "method")
MethodOf(c) == c.v["auth"].v["github"].v["method"]

\* C8: the validation fails whenever auth.github.method is present with a value
\* outside the four methods, and does not fail on the method for any of the four.
C8_MethodValidated ==
    (last.op \in Mutating /\ last.checked /\ MethodPresent(cfg)) =>
        /\ MethodOf(cfg) \notin ClaimMethods => last.res.e = "ValueError"
        /\ MethodOf(cfg) \in ClaimMethods => last.res.m # "Invalid auth method"
        /\ (MethodOf(cfg) \in ClaimMethods /\ ~ProvidersDefect(cfg)
              /\ StructOK(cfg)) => last.res.e = "ok"

\* a set of the method to a value outside the four was rejected for it
C8_Witness ==
    /\ last.op = "set" /\ last.path = MethodPath /\ last.val = Str("bogus")
    /\ last.res.e = "ValueError" /\ last.res.m = "Invalid auth method"
    /\ MethodPresent(cfg) /\ MethodOf(cfg) = Str("bogus")

\* config_data or {}
DataOf(data) == IF Truthy(data) THEN data ELSE EmptyMap
GithubOf(c) == c.v["providers"].v["github"]
LocalOf(c) == c.v["providers"].v["local"]

\* C9: a Config built from data without providers has empty github and local
\* sequences; built from a providers mapping that lacks one of them, it has
\* that one empty and the other as given.
C9_ProvidersPopulated ==
    (last.op = "init" /\ alive) =>
        LET d == DataOf(last.val) IN
        /\ ~Has(d, "providers") =>
              GithubOf(cfg) = EmptyList /\ LocalOf(cfg) = EmptyList
        /\ (Has(d, "providers") /\ ~Has(d.v["providers"], "github")) =>
              /\ GithubOf(cfg) = EmptyList
              /\ Has(d.v["providers"], "local") => LocalOf(cfg) = LocalOf(d)
        /\ (Has(d, "providers") /\ ~Has(d.v["providers"], "local")) =>
              /\ LocalOf(cfg) = EmptyList
              /\ Has(d.v["providers"], "github") => GithubOf(cfg) = GithubOf(d)

\* built from a providers mapping with a local entry and no github key
C9_Witness ==
    /\ last.op = "init" /\ alive
    /\ last.val = Map([providers |-> Map([local |-> Lst(<<LocEntry>>)])])
    /\ GithubOf(cfg) = EmptyList /\ LocalOf(cfg) = Lst(<<LocEntry>>)

----------------------------------------------------------------------------
(* Providers.                                                               *)
(* A relative path is [dir |-> directory names, name |-> [s |-> stem,       *)
(* x |-> extension]]; its text is the names joined by "/".  A pattern is    *)
(* [kind |-> "all"] ("*"), [kind |-> "ext", x |-> e] ("*.e") or             *)
(* [kind |-> "name", n |-> text] (a literal such as ".git") or              *)
(* [kind |-> "in", d |-> dir, x |-> e] ("dir/*.e").  A call's               *)
(* target_dir is the one target directory of the model.                     *)

File(dir, stem, ext) == [dir |-> dir, name |-> [s |-> stem, x |-> ext]]
NoFile == File(<<>>, "", "")
PatAll == [kind |-> "all"]
PatExt(e) == [kind |-> "ext", x |-> e]
PatName(n) == [kind |-> "name", n |-> n]
PatIn(d, e) == [kind |-> "in", d |-> d, x |-> e]

BaseText(name) == name.s \o "." \o name.x

\* fnmatch.fnmatch(filename, pattern): a base name holds no "/", so a
\* pattern with one matches none
FnMatch(name, pattern) ==
    CASE pattern.kind = "all" -> TRUE
      [] pattern.kind = "ext" -> name.x = pattern.x
      [] pattern.kind = "name" -> BaseText(name) = pattern.n
      [] pattern.kind = "in" -> FALSE

\* Provider._matches_pattern
MatchesPattern(name, pattern) ==
    IF pattern = PatAll THEN TRUE ELSE FnMatch(name, pattern)

\* PathSpec.match_file for one gitignore line without a slash: it matches the
\* file when it matches the base name or, a literal, a directory above it
GitMatch(f, pattern) ==
    \/ FnMatch(f.name, pattern)
    \/ pattern.kind = "name" /\ \E i \in DOMAIN f.dir : f.dir[i] = pattern.n
SpecMatch(f, patterns) == \E pat \in patterns : GitMatch(f, pat)

\* Provider._filter_file_paths
FilterFilePaths(p, file_paths) ==
    LET KeepIncluded(f) == SpecMatch(f, p.include)
        KeepNotExcluded(f) == ~SpecMatch(f, p.exclude)
        files1 == IF p.include # {} THEN SelectSeq(file_paths, KeepIncluded)
                  ELSE file_paths
    IN IF p.exclude # {} THEN SelectSeq(files1, KeepNotExcluded) ELSE files1

DefaultExclude == {PatName(".git"), PatName("__pycache__"), PatExt("pyc")}

\* provider_config.get("resource_dir", "resources"), as directory names
ResourceDirOf(entry) ==
    LET rd == MapGet(entry, "resource_dir", Str("resources")).v
    IN IF rd = "" THEN <<>> ELSE <<rd>>

\* Provider.__init__ and the subclass constructors, given the provider entry,
\* the patterns of the Config and the token that was resolved ("" for none)
NewProvider(kind, entry, include, exclude, token) ==
    [kind |-> kind,
     name |-> entry.v["name"],
     enabled |-> MapGet(entry, "enabled", Bool(TRUE)),
     include |-> include,
     exclude |-> exclude,
     resource_dir |-> ResourceDirOf(entry),
     token |-> IF kind = "github" THEN token ELSE ""]

\* the directory tree a local provider reads (base_path) and the blobs and
\* trees of the repository a GitHub provider reads, in listing order
SrcFiles == << File(<<>>, "a", "txt"), File(<<>>, "b", "pyc"),
               File(<<"sub">>, "n", "txt"), File(<<".git">>, "c", "txt") >>
InDir(d, f) == [f EXCEPT !.dir = d \o f.dir]
RepoTree ==
    << [type |-> "blob", path |-> File(<<>>, "README", "md")],
       [type |-> "tree", path |-> File(<<>>, "resources", "")],
       [type |-> "blob", path |-> InDir(<<"resources">>, SrcFiles[1])],
       [type |-> "blob", path |-> InDir(<<"resources">>, SrcFiles[2])],
       [type |-> "tree", path |-> File(<<"resources">>, "sub", "")],
       [type |-> "blob", path |-> InDir(<<"resources">>, SrcFiles[3])],
       [type |-> "blob", path |-> InDir(<<"resources">>, SrcFiles[4])],
       [type |-> "blob", path |-> File(<<"resources2">>, "z", "txt")] >>

\* what a download_folder call finds outside the program: the answer to the
\* tree request, one file whose transfer fails (or none) and how, and whether
\* the filesystem refuses to create or to clean the target directory.  A
\* transfer fails in the request or the read ("fetch"), before the target
\* file is opened ("write"), or after it was opened and truncated ("partial")
DownloadEnvs ==
    [trees : {"ok"}, bad : {""}, how : {""}, disk : {"ok", "denied"}]
    \cup [trees : {"error", "notree"}, bad : {""}, how : {""}, disk : {"ok"}]
    \cup [trees : {"ok"}, bad : {"a", "n"}, how : {"fetch", "write", "partial"},
          disk : {"ok"}]
Fails(env, f, how) == env.bad = f.name.s /\ env.how = how

\* how an exists or is_available request ends
Statuses == {"200", "404", "error"}

\* the result of a provider call: what it returned or that it raised, the
\* target directory it leaves and the requests it issued
PResult(ret, raised, target, reqs) ==
    [ret |-> ret, raised |-> raised, target |-> target, reqs |-> reqs]

\* a request that always carries the Authorization header
RequestAlwaysAuth(p, api, file) == [api |-> api, file |-> file, auth |-> TRUE]

\* a request, with the Authorization header when a token was resolved
Request(p, api, file) == [api |-> api, file |-> file, auth |-> p.token # ""]

\* Provider._ensure_target_dir: mkdir(parents=True, exist_ok=True)
EnsureTargetDir(target, env) ==
    CASE target.state = "dir" -> [ok |-> TRUE, target |-> target]
      [] target.state = "file" -> [ok |-> FALSE, target |-> target]
      [] target.state = "missing" ->
           IF env.disk = "denied" THEN [ok |-> FALSE, target |-> target]
           ELSE [ok |-> TRUE, target |-> [state |-> "dir", files |-> <<>>]]

\* the clean loop over target_path.iterdir()
Clean(target, env) ==
    IF env.disk = "denied" /\ DOMAIN target.files # {}
    THEN [ok |-> FALSE, target |-> target]
    ELSE [ok |-> TRUE, target |-> [target EXCEPT !.files = <<>>]]

\* target_path.write_text(content) and shutil.copy2(source_file, target_file)
WriteFile(target, f, content) ==
    [target EXCEPT !.files =
        [g \in (DOMAIN target.files) \cup {f} |->
            IF g = f THEN content ELSE target.files[g]]]

\* a transfer loop that asks the Contents API for each file
RECURSIVE TransferViaContents(_, _, _, _, _)
TransferViaContents(p, env, files, target, acc) ==
    IF files = <<>> THEN PResult(acc.ret, FALSE, target, acc.reqs)
    ELSE LET f == Head(files)
             reqs == IF p.kind = "github"
                     THEN Append(acc.reqs, Request(p, "contents", InDir(p.resource_dir, f)))
                     ELSE acc.reqs
         IN IF env.bad = f.name.s
            THEN TransferViaContents(p, env, Tail(files), target,
                                     [acc EXCEPT !.reqs = reqs])
            ELSE TransferViaContents(p, env, Tail(files), WriteFile(target, f, "src"),
                                     [ret |-> Append(acc.ret, f), reqs |-> reqs])

\* a transfer loop that gives up at the first file that fails
RECURSIVE TransferAbort(_, _, _, _, _)
TransferAbort(p, env, files, target, acc) ==
    IF files = <<>> THEN PResult(acc.ret, FALSE, target, acc.reqs)
    ELSE LET f == Head(files)
         IN IF env.bad = f.name.s THEN PResult(acc.ret, FALSE, target, acc.reqs)
            ELSE TransferAbort(p, env, Tail(files), WriteFile(target, f, "src"),
                               [acc EXCEPT !.ret = Append(acc.ret, f)])

\* the transfer loop of both download_folder methods: a GitHub provider
\* requests each file, a file that fails is skipped
RECURSIVE Transfer(_, _, _, _, _)
Transfer(p, env, files, target, acc) ==
    IF files = <<>> THEN PResult(acc.ret, FALSE, target, acc.reqs)
    ELSE LET f == Head(files)
             reqs == IF p.kind = "github"
                     THEN Append(acc.reqs, Request(p, "raw", InDir(p.resource_dir, f)))
                     ELSE acc.reqs
         IN IF Fails(env, f, "fetch") \/ Fails(env, f, "write")
            THEN Transfer(p, env, Tail(files), target, [acc EXCEPT !.reqs = reqs])
            ELSE IF Fails(env, f, "partial")
            THEN Transfer(p, env, Tail(files), WriteFile(target, f, "part"),
                          [acc EXCEPT !.reqs = reqs])
            ELSE Transfer(p, env, Tail(files), WriteFile(target, f, "src"),
                          [ret |-> Append(acc.ret, f), reqs |-> reqs])

\* a test that takes every path inside some directory for one under
\* resource_dir
UnderAnyDir(p, path) == path.dir # <<>>

\* file_path.startswith(resource_dir_prefix), relative_path
UnderResourceDir(p, path) ==
    /\ Len(path.dir) >= Len(p.resource_dir)
    /\ SubSeq(path.dir, 1, Len(p.resource_dir)) = p.resource_dir
RelativePath(p, path) ==
    [path EXCEPT !.dir = SubSeq(path.dir, Len(p.resource_dir) + 1, Len(path.dir))]

\* the candidates of GitHubProvider.download_folder among the tree entries
RECURSIVE ResourceFiles(_, _, _)
ResourceFiles(p, tree, args) ==
    IF tree = <<>> THEN <<>>
    ELSE LET item == Head(tree)
             rel == RelativePath(p, item.path)
             keep == /\ item.type = "blob"
                     /\ UnderResourceDir(p, item.path)
                     /\ ~(~args.recursive /\ rel.dir # <<>>)
                     /\ MatchesPattern(rel.name, args.file_pattern)
         IN (IF keep THEN <<rel>> ELSE <<>>) \o ResourceFiles(p, Tail(tree), args)

\* a provider that never takes itself for disabled
DisabledNever(p) == FALSE

\* not self.enabled
Disabled(p) == ~Truthy(p.enabled)

\* GitHubProvider.download_folder
GitHubDownloadFolder(p, disk, args, env) ==
    IF Disabled(p) THEN PResult(<<>>, FALSE, disk.target, <<>>)
    ELSE LET e == EnsureTargetDir(disk.target, env) IN
      IF ~e.ok THEN PResult(<<>>, TRUE, e.target, <<>>)
      ELSE LET c == IF args.clean THEN Clean(e.target, env)
                    ELSE [ok |-> TRUE, target |-> e.target]
               listing == <<Request(p, "trees", NoFile)>>
           IN IF ~c.ok THEN PResult(<<>>, TRUE, c.target, <<>>)
              ELSE IF env.trees # "ok" THEN PResult(<<>>, FALSE, c.target, listing)
              ELSE Transfer(p, env,
                            FilterFilePaths(p, ResourceFiles(p, RepoTree, args)),
                            c.target, [ret |-> <<>>, reqs |-> listing])

\* Path.glob: the pattern is matched against the whole relative path, "*"
\* within one level and a leading "**/" over any number of directories
GlobMatch(f, deep, pattern) ==
    CASE pattern.kind = "in" ->
           /\ f.dir # <<>> /\ f.dir[Len(f.dir)] = pattern.d /\ f.name.x = pattern.x
           /\ deep \/ Len(f.dir) = 1
      [] OTHER -> (deep \/ f.dir = <<>>) /\ FnMatch(f.name, pattern)

\* the entries base_path.glob(glob_pattern) yields that are files, where
\* glob_pattern is "**/" + file_pattern when recursive and file_pattern
\* itself otherwise
RECURSIVE MatchingFiles(_, _)
MatchingFiles(files, args) ==
    IF files = <<>> THEN <<>>
    ELSE LET f == Head(files)
             keep == GlobMatch(f, args.recursive, args.file_pattern)
         IN (IF keep THEN <<f>> ELSE <<>>) \o MatchingFiles(Tail(files), args)

\* LocalProvider.download_folder
LocalDownloadFolder(p, disk, args, env) ==
    IF Disabled(p) \/ ~disk.base THEN PResult(<<>>, FALSE, disk.target, <<>>)
    ELSE LET e == EnsureTargetDir(disk.target, env) IN
      IF ~e.ok THEN PResult(<<>>, TRUE, e.target, <<>>)
      ELSE LET c == IF args.clean THEN Clean(e.target, env)
                    ELSE [ok |-> TRUE, target |-> e.target]
           IN IF ~c.ok THEN PResult(<<>>, TRUE, c.target, <<>>)
              ELSE Transfer(p, env, FilterFilePaths(p, MatchingFiles(SrcFiles, args)),
                            c.target, [ret |-> <<>>, reqs |-> <<>>])

DownloadFolder(p, disk, args, env) ==
    IF p.kind = "github" THEN GitHubDownloadFolder(p, disk, args, env)
    ELSE LocalDownloadFolder(p, disk, args, env)

\* GitHubProvider.exists and LocalProvider.exists
Exists(p, disk, f, status) ==
    IF Disabled(p) THEN PResult(FALSE, FALSE, disk.target, <<>>)
    ELSE IF p.kind = "github"
    THEN PResult(status = "200", FALSE, disk.target,
                 <<Request(p, "contents", InDir(p.resource_dir, f))>>)
    ELSE PResult(disk.base /\ \E i \in DOMAIN SrcFiles : SrcFiles[i] = f,
                 FALSE, disk.target, <<>>)

\* GitHubProvider.is_available and LocalProvider.is_available
IsAvailable(p, disk, status) ==
    IF p.kind = "github"
    THEN IF Disabled(p) THEN PResult(FALSE, FALSE, disk.target, <<>>)
         ELSE PResult(status = "200", FALSE, disk.target, <<Request(p, "head", NoFile)>>)
    ELSE PResult(~Disabled(p) /\ disk.base, FALSE, disk.target, <<>>)

----------------------------------------------------------------------------
(* One provider, its source and the target directory as a state machine *)

MaxCalls == 1

ProviderEntries ==
    { Map([name |-> Str("p")]),
      Map([name |-> Str("p"), enabled |-> Bool(TRUE)]),
      Map([name |-> Str("p"), enabled |-> Bool(FALSE)]) }
PatternSets ==
    { [include |-> {}, exclude |-> DefaultExclude],
      [include |-> {PatExt("txt")}, exclude |-> {PatName("sub")}] }
Providers0 ==
    { NewProvider(kind, entry, ps.include, ps.exclude, token) :
        kind \in {"github", "local"}, entry \in ProviderEntries,
        ps \in PatternSets, token \in {"", "tok"} }

OldFiles == [f \in {File(<<>>, "a", "txt"), File(<<>>, "old", "txt")} |-> "old"]
Disks0 ==
    [base : BOOLEAN,
     target : { [state |-> "missing", files |-> <<>>],
                [state |-> "file", files |-> <<>>],
                [state |-> "dir", files |-> <<>>],
                [state |-> "dir", files |-> OldFiles] }]

DownloadArgs ==
    [file_pattern : {PatAll, PatExt("txt"), PatIn("sub", "txt")},
     recursive : BOOLEAN, clean : BOOLEAN]
ExistsArgs == {SrcFiles[1], File(<<>>, "missing", "txt")}

NoEnv == [trees |-> "", bad |-> "", how |-> "", disk |-> ""]
PNone == [op |-> "none", args |-> NoFile, env |-> NoEnv, ret |-> FALSE, raised |-> FALSE,
          pre |-> NoFile, sent |-> 0, n |-> 0]

\* a provider was built and nothing was called; the Config variables stay
\* idle in this specification
PInit ==
    /\ prov \in Providers0 /\ fs \in Disks0 /\ net = <<>> /\ plast = PNone
    /\ cfg = Null /\ alive = FALSE /\ last = NoOp /\ nops = 0

\* the record of a call: what was called, what it found outside the program,
\* what came back, the disk before it and the number of requests it issued
PRecord(op, args, env, r) ==
    [op |-> op, args |-> args, env |-> env, ret |-> r.ret, raised |-> r.raised,
     pre |-> fs, sent |-> Len(r.reqs), n |-> plast.n + 1]

\* provider.download_folder(target_dir, file_pattern, recursive, clean)
PDownloadFolder(args, env) ==
    /\ plast.n < MaxCalls
    /\ LET r == DownloadFolder(prov, fs, args, env)
       IN /\ fs' = [fs EXCEPT !.target = r.target]
          /\ net' = net \o r.reqs
          /\ plast' = PRecord("download_folder", args, env, r)
    /\ UNCHANGED <<prov, cvars>>

\* provider.exists(path)
PExists(f, status) ==
    /\ plast.n < MaxCalls
    /\ LET r == Exists(prov, fs, f, status)
       IN /\ fs' = [fs EXCEPT !.target = r.target]
          /\ net' = net \o r.reqs
          /\ plast' = PRecord("exists", f, [NoEnv EXCEPT !.trees = status], r)
    /\ UNCHANGED <<prov, cvars>>

\* provider.is_available()
PIsAvailable(status) ==
    /\ plast.n < MaxCalls
    /\ LET r == IsAvailable(prov, fs, status)
       IN /\ fs' = [fs EXCEPT !.target = r.target]
          /\ net' = net \o r.reqs
          /\ plast' = PRecord("is_available", NoFile, [NoEnv EXCEPT !.trees = status], r)
    /\ UNCHANGED <<prov, cvars>>

PNext ==
    \/ \E args \in DownloadArgs, env \in DownloadEnvs : PDownloadFolder(args, env)
    \/ \E f \in ExistsArgs, status \in Statuses : PExists(f, status)
    \/ \E status \in Statuses : PIsAvailable(status)

SpecProvider == PInit /\ [][PNext]_vars

----------------------------------------------------------------------------
(* Claims about providers *)

\* C10: on a provider whose entry has enabled = false, download_folder returns
\* an empty sequence, exists and is_available return false, and none of them
\* raises, issues a request or changes anything in the target directory.
C10_DisabledNoEffect ==
    (plast.op # "none" /\ prov.enabled = Bool(FALSE)) =>
        /\ plast.op = "download_folder" => plast.ret = <<>>
        /\ plast.op \in {"exists", "is_available"} => plast.ret = FALSE
        /\ ~plast.raised
        /\ plast.sent = 0 /\ net = <<>>
        /\ fs = plast.pre

\* download_folder with clean was called on a disabled GitHub provider whose
\* target directory holds files, and they are still there
C10_Witness ==
    /\ plast.op = "download_folder" /\ plast.args.clean
    /\ prov.kind = "github" /\ prov.enabled = Bool(FALSE)
    /\ fs.target.files = OldFiles

Downloaded == plast.op = "download_folder"
Returned == {plast.ret[i] : i \in DOMAIN plast.ret}
Before == plast.pre.target.files
After == fs.target.files

\* C11: download_folder never hands an exception to its caller, whatever the
\* state of the target directory, of the source and of the network; when the
\* target directory cannot be created or cleaned it returns an empty sequence.
C11_NeverPropagates == Downloaded => ~plast.raised

\* C12: a download_folder call with clean on an enabled provider that returns
\* has removed every entry the target directory held before the call, and it
\* removed them before it wrote: an entry still there was written by the call,
\* and every file the call returned is there.
C12_CleanRemovesBefore ==
    (Downloaded /\ plast.args.clean /\ ~Disabled(prov) /\ ~plast.raised) =>
        /\ \A f \in DOMAIN Before : f \in DOMAIN After => After[f] # Before[f]
        /\ \A f \in Returned : f \in DOMAIN After /\ After[f] = "src"

\* C13: after download_folder without clean, every file the target directory
\* held before the call and that is not among the files the call returned as
\* transferred is still there with the content it had.
C13_NoCleanKeepsOthers ==
    (Downloaded /\ ~plast.args.clean) =>
        \A f \in DOMAIN Before :
            f \notin Returned => f \in DOMAIN After /\ After[f] = Before[f]

\* C14: download_folder with recursive = false, on either kind of provider and
\* with any file_pattern, returns only paths without a directory part and
\* writes no file below a subdirectory of the target directory.
C14_TopLevelOnly ==
    (Downloaded /\ ~plast.args.recursive) =>
        /\ \A f \in Returned : f.dir = <<>>
        /\ \A f \in DOMAIN After :
              f.dir # <<>> => f \in DOMAIN Before /\ After[f] = Before[f]

\* the call got as far as its transfer loop: the provider is enabled, the
\* target directory was prepared and the source answered
Enumerated ==
    /\ Downloaded /\ ~Disabled(prov) /\ ~plast.raised
    /\ IF prov.kind = "github" THEN plast.env.trees = "ok" ELSE plast.pre.base
Failed(f) == plast.env.bad = f.name.s

\* the files of the source root that pass file_pattern by their base name,
\* the include patterns when there are any, and the exclude patterns
Passes(f) ==
    /\ plast.args.recursive \/ f.dir = <<>>
    /\ plast.args.file_pattern = PatAll \/ FnMatch(f.name, plast.args.file_pattern)
    /\ prov.include = {} \/ \E pat \in prov.include : GitMatch(f, pat)
    /\ \A pat \in prov.exclude : ~GitMatch(f, pat)
Expected == {SrcFiles[i] : i \in {j \in DOMAIN SrcFiles : Passes(SrcFiles[j])}}

\* C15: when no file fails, download_folder of either kind of provider returns
\* exactly the files under the source root whose base name matches
\* file_pattern, that match an include pattern when there are include
\* patterns, and that match no exclude pattern.
C15_ReturnsFiltered ==
    (Enumerated /\ plast.env.bad = "") => Returned = Expected

\* the files that survive enumeration and filtering, in enumeration order
Surviving ==
    IF prov.kind = "github"
    THEN FilterFilePaths(prov, ResourceFiles(prov, RepoTree, plast.args))
    ELSE FilterFilePaths(prov, MatchingFiles(SrcFiles, plast.args))
Succeeded(f) == ~Failed(f)

\* C16: a file whose fetch, copy or write fails does not stop download_folder:
\* the call returns the surviving files whose transfer succeeded, in
\* enumeration order, and each returned file is in the target directory.
C16_SkipAndContinue ==
    Enumerated =>
        /\ plast.ret = SelectSeq(Surviving, Succeeded)
        /\ \A f \in Returned : f \in DOMAIN After /\ After[f] = "src"

\* the transfer of a.txt failed and sub/n.txt, enumerated after it, was
\* transferred and returned
C16_Witness ==
    /\ Enumerated /\ plast.env.bad = "a"
    /\ \E i \in DOMAIN Surviving : Surviving[i] = SrcFiles[1]
    /\ SrcFiles[1] \notin Returned
    /\ SrcFiles[3] \in Returned /\ SrcFiles[3] \in DOMAIN After

----------------------------------------------------------------------------
(* Construction of a GitHubProvider: the url and the token.                 *)
(* A url is the sequence of the texts between its "/" characters.  A token  *)
(* value is its text with what the shape validation looks at: its length,   *)
(* the prefix it starts with ("" for none of the known ones) and its        *)
(* characters: "hex" for [a-f0-9] only, "word" for [a-zA-Z0-9_-], "wordnl"  *)
(* for such characters followed by one final newline, "other".              *)
(* The text "" is None or the empty string.                                 *)

Url(parts) == [k |-> "str", v |-> parts]

\* url.rstrip("/")
RECURSIVE RStripSlash(_)
RStripSlash(u) ==
    IF Len(u) > 1 /\ u[Len(u)] = "" THEN RStripSlash(SubSeq(u, 1, Len(u) - 1)) ELSE u

\* self.url.rstrip("/").split("/")
UrlParts(u) == RStripSlash(u)

\* len(parts) < 5 or parts[2] != "github.com"
UrlRejected(parts) == Len(parts) < 5 \/ parts[3] # "github.com"

Tok(text, len, prefix, chars) ==
    [text |-> text, len |-> len, prefix |-> prefix, chars |-> chars]
NoValue == Tok("", 0, "", "hex")

github_prefixes == {"ghp_", "gho_", "ghu_", "ghs_", "ghr_"}

\* re.match(r"^[a-zA-Z0-9_-]+$", token): "$" also matches before a newline
\* that ends the string
WordMatch(chars) == chars \in {"hex", "word", "wordnl"}

\* _is_valid_github_token
IsValidGithubToken(t) ==
    IF t.text = "" \/ t.len < 20 THEN FALSE
    ELSE IF t.prefix \in github_prefixes THEN t.len >= 36
    ELSE IF t.len = 40 /\ t.chars = "hex" THEN TRUE
    ELSE IF t.prefix = "github_pat_" THEN t.len >= 50
    ELSE t.len >= 20 /\ WordMatch(t.chars)

env_vars == <<"GITHUB_TOKEN", "GH_TOKEN", "GITHUB_ACCESS_TOKEN", "GH_ACCESS_TOKEN">>

\* the first text of a sequence of token values that is not empty and valid,
\* "" when there is none
RECURSIVE FirstValid(_)
FirstValid(q) ==
    IF q = <<>> THEN ""
    ELSE IF Head(q).text # "" /\ IsValidGithubToken(Head(q)) THEN Head(q).text
    ELSE FirstValid(Tail(q))

\* an environment scan that starts at GH_TOKEN
GetTokenFromEnvSkipFirst(env) ==
    FirstValid([i \in 1..(Len(env_vars) - 1) |-> env.vars[env_vars[i + 1]]])

\* get_token_from_env
GetTokenFromEnv(env) ==
    FirstValid([i \in DOMAIN env_vars |-> env.vars[env_vars[i]]])

\* get_token_from_git_credentials: the password lines of `git credential fill`
\* when it ran and exited with 0
GetTokenFromGitCredentials(env) ==
    IF env.git.how = "ok" THEN FirstValid(env.git.passwords) ELSE ""

\* get_github_token
GetGithubToken(env) ==
    LET token == GetTokenFromEnv(env)
    IN IF token # "" THEN token ELSE GetTokenFromGitCredentials(env)

\* the token GitHubProvider.__init__ resolves from auth.github.method
ResolveToken(c, env) ==
    LET auth_method == Get(c, <<P("auth"), P("github"), P("method")>>, Str("auto")).v
    IN CASE auth_method = Str("default") -> ""
         [] auth_method = Str("auto") -> GetGithubToken(env)
         [] auth_method = Str("dotenv") -> GetTokenFromEnv(env)
         [] auth_method = Str("gitcli") -> GetTokenFromGitCredentials(env)
         [] OTHER -> ""

\* the result of a constructor or of a getter
Built(ret) == [ret |-> ret, raised |-> FALSE]
BuildFailed == [ret |-> <<>>, raised |-> TRUE]

\* GitHubProvider(config, provider_config); the Configs of the model have no
\* resources section, so the patterns are the defaults
NewGitHubProvider(c, entry, env) ==
    LET parts == UrlParts(entry.v["url"].v)
    IN IF UrlRejected(parts) THEN BuildFailed
       ELSE Built([p |-> NewProvider("github", entry, {}, DefaultExclude,
                                     ResolveToken(c, env)),
                   owner |-> parts[4], repo |-> parts[5]])

\* LocalProvider(config, provider_config)
NewLocalProvider(c, entry) ==
    Built([p |-> NewProvider("local", entry, {}, DefaultExclude, ""),
           owner |-> "", repo |-> ""])

\* Config.get_providers
GetProviders(c, provider_type) ==
    Get(c, <<P("providers"), P(provider_type)>>, EmptyList).v

\* p.get("enabled", True), taken as a condition
EnabledEntry(p) == Truthy(MapGet(p, "enabled", Bool(TRUE)))

\* Config.get_enabled_providers
GetEnabledProviders(c, provider_type) ==
    SelectSeq(GetProviders(c, provider_type).v, EnabledEntry)

\* the loops of get_all_providers: a constructor that raises ends the call
RECURSIVE BuildAll(_, _, _, _)
BuildAll(c, kind, entries, env) ==
    IF entries = <<>> THEN Built(<<>>)
    ELSE LET b == IF kind = "github" THEN NewGitHubProvider(c, Head(entries), env)
                  ELSE NewLocalProvider(c, Head(entries))
             rest == BuildAll(c, kind, Tail(entries), env)
         IN IF b.raised \/ rest.raised THEN BuildFailed
            ELSE Built(<<b.ret>> \o rest.ret)

\* the scan of get_provider: the first entry with the name is built, for a
\* type that is neither github nor local nothing is
RECURSIVE FindProvider(_, _, _, _, _)
FindProvider(c, provider_type, entries, provider_name, env) ==
    IF entries = <<>> THEN Built(Null)
    ELSE IF MapGet(Head(entries), "name", Null) = Str(provider_name)
              /\ provider_type \in {"github", "local"}
    THEN IF provider_type = "github" THEN NewGitHubProvider(c, Head(entries), env)
         ELSE NewLocalProvider(c, Head(entries))
    ELSE FindProvider(c, provider_type, Tail(entries), provider_name, env)

\* get_provider
GetProvider(c, provider_type, provider_name, env) ==
    FindProvider(c, provider_type, GetProviders(c, provider_type).v, provider_name, env)

\* get_all_providers
GetAllProviders(c, env) ==
    LET gh == BuildAll(c, "github", GetEnabledProviders(c, "github"), env)
        loc == BuildAll(c, "local", GetEnabledProviders(c, "local"), env)
    IN IF gh.raised \/ loc.raised THEN BuildFailed ELSE Built(gh.ret \o loc.ret)

----------------------------------------------------------------------------
(* Inputs of the constructors and getters *)

GoodUrl == <<"https:", "", "github.com", "o", "r">>
Urls ==
    { GoodUrl,
      GoodUrl \o <<"">>,
      <<"http:", "", "github.com", "o", "r">>,
      <<"https:", "", "gitlab.com", "o", "r">>,
      <<"https:", "", "github.com", "o">>,
      GoodUrl \o <<"tree", "main">>,
      <<"git@github.com:o", "r.git">>,
      <<"https:", "", "github.com", "", "r">> }

\* the values of an entry's enabled field: none, true, false, null
Enableds == {"absent", "true", "false", "null"}
WithEnabled(entry, e) ==
    CASE e = "absent" -> entry
      [] e = "true" -> MapPut(entry, "enabled", Bool(TRUE))
      [] e = "false" -> MapPut(entry, "enabled", Bool(FALSE))
      [] e = "null" -> MapPut(entry, "enabled", Null)
GEntry(name, url, e) == WithEnabled(Map([name |-> Str(name), url |-> Url(url)]), e)
LEntry(name, e) == WithEnabled(Map([name |-> Str(name), path |-> Str("./res")]), e)

GhLists ==
    {<<>>} \cup {<<GEntry("g1", GoodUrl, e)>> : e \in Enableds}
    \cup {<<GEntry("g1", GoodUrl, e1), GEntry("g2", GoodUrl, e2)>> :
            e1 \in Enableds, e2 \in Enableds}
    \cup {<<GEntry("g1", GoodUrl, "true"), GEntry("g2", <<"https:", "", "gitlab.com", "o", "r">>, "true")>>}
    \cup {<<GEntry("g1", GoodUrl, "true"), GEntry("g1", GoodUrl \o <<"">>, "false")>>}
LocLists ==
    {<<>>} \cup {<<LEntry("l1", e)>> : e \in Enableds}
    \cup {<<LEntry("l1", e1), LEntry("l2", e2)>> : e1 \in Enableds, e2 \in Enableds}

\* the Configs the getters are called on
GetterConfigs ==
    { Construct(Map([providers |-> Providers(gh, loc), auth |-> AuthOf(Str(m))])).v :
        gh \in GhLists, loc \in LocLists, m \in {"default", "auto"} }

\* the Configs a GitHubProvider is built from: each method, and no method
AuthConfigs ==
    { Construct(Map([auth |-> a])).v :
        a \in {Map([github |-> EmptyMap])}
              \cup {AuthOf(Str(m)) : m \in {"default", "auto", "dotenv", "gitcli"}} }

\* the environment: the four variables and what `git credential fill` does
EnvTok(i) == Tok("E" \o ToString(i), 40, "ghp_", "word")
ShortTok == Tok("short", 5, "", "word")
GitTok == Tok("G", 40, "", "hex")
BadPassword == Tok("gbad", 25, "", "other")
EnvValues == {NoValue, ShortTok} \cup {EnvTok(i) : i \in DOMAIN env_vars}
EnvVars ==
    { f \in [{env_vars[i] : i \in DOMAIN env_vars} -> EnvValues] :
        \A i \in DOMAIN env_vars : f[env_vars[i]] \in {NoValue, ShortTok, EnvTok(i)} }
GitOutcomes ==
    { [how |-> "ok", passwords |-> <<>>],
      [how |-> "ok", passwords |-> <<GitTok>>],
      [how |-> "ok", passwords |-> <<BadPassword>>],
      [how |-> "ok", passwords |-> <<BadPassword, GitTok>>],
      [how |-> "failed", passwords |-> <<GitTok>>],
      [how |-> "notfound", passwords |-> <<>>] }
OsEnvs == [vars : EnvVars, git : GitOutcomes]
FewestEnv == [vars |-> [v \in {env_vars[i] : i \in DOMAIN env_vars} |-> NoValue],
              git |-> [how |-> "ok", passwords |-> <<>>]]
NoVars == [v \in {env_vars[i] : i \in DOMAIN env_vars} |-> NoValue]
FewEnvs ==
    [vars : {NoVars, [NoVars EXCEPT !["GITHUB_TOKEN"] = EnvTok(1)]},
     git : {[how |-> "ok", passwords |-> <<>>], [how |-> "ok", passwords |-> <<GitTok>>]}]

----------------------------------------------------------------------------
(* Building one GitHubProvider from a Config and the environment *)

KInit ==
    /\ cfg \in AuthConfigs /\ alive = TRUE /\ last = NoOp /\ nops = 0
    /\ prov = Null /\ fs = Null /\ net = <<>> /\ plast = PNone

\* GitHubProvider(config, entry): on an exception no provider exists
KNewGitHubProvider(entry, env) ==
    /\ plast.op = "none"
    /\ LET r == NewGitHubProvider(cfg, entry, env)
       IN /\ prov' = IF r.raised THEN Null ELSE r.ret
          /\ plast' = [op |-> "GitHubProvider", args |-> entry, env |-> env,
                       ret |-> r.ret, raised |-> r.raised, pre |-> NoFile,
                       sent |-> 0, n |-> 1]
    /\ UNCHANGED <<cvars, fs, net>>

KNext == \E url \in Urls, env \in OsEnvs : KNewGitHubProvider(GEntry("g1", url, "absent"), env)

SpecGitHubInit == KInit /\ [][KNext]_vars

----------------------------------------------------------------------------
(* The getters of a Config and get_all_providers *)

GInit ==
    /\ cfg \in GetterConfigs /\ alive = TRUE /\ last = NoOp /\ nops = 0
    /\ prov = Null /\ fs = Null /\ net = <<>> /\ plast = PNone

\* config.get_enabled_providers(provider_type)
GGetEnabledProviders(provider_type) ==
    /\ plast.op = "none"
    /\ plast' = [op |-> "get_enabled_providers", args |-> provider_type, env |-> NoEnv,
                 ret |-> GetEnabledProviders(cfg, provider_type), raised |-> FALSE,
                 pre |-> NoFile, sent |-> 0, n |-> 1]
    /\ UNCHANGED <<cvars, prov, fs, net>>

\* get_all_providers(config)
GGetAllProviders(env) ==
    /\ plast.op = "none"
    /\ LET r == GetAllProviders(cfg, env)
       IN plast' = [op |-> "get_all_providers", args |-> "", env |-> env,
                    ret |-> r.ret, raised |-> r.raised,
                    pre |-> NoFile, sent |-> 0, n |-> 1]
    /\ UNCHANGED <<cvars, prov, fs, net>>

\* get_provider(config, provider_type, provider_name)
GGetProvider(provider_type, provider_name, env) ==
    /\ plast.op = "none"
    /\ LET r == GetProvider(cfg, provider_type, provider_name, env)
       IN plast' = [op |-> "get_provider", args |-> <<provider_type, provider_name>>,
                    env |-> env, ret |-> r.ret, raised |-> r.raised,
                    pre |-> NoFile, sent |-> 0, n |-> 1]
    /\ UNCHANGED <<cvars, prov, fs, net>>

GNext ==
    \/ \E provider_type \in {"github", "local", "other"} : GGetEnabledProviders(provider_type)
    \/ \E env \in FewEnvs : GGetAllProviders(env)
    \/ \E provider_type \in {"github", "local", "other"},
          provider_name \in {"g1", "g2", "l1", "zz"} :
            GGetProvider(provider_type, provider_name, FewestEnv)

SpecGetter == GInit /\ [][GNext]_vars

----------------------------------------------------------------------------
(* Claims about construction and the getters *)

BuiltGitHub == plast.op = "GitHubProvider"

\* https://github.com/{owner}/{repo}, with or without one trailing slash
WellShapedUrl(u) ==
    LET q == IF Len(u) = 6 /\ u[6] = "" THEN SubSeq(u, 1, 5) ELSE u
    IN /\ Len(q) = 5
       /\ q[1] = "https:" /\ q[2] = "" /\ q[3] = "github.com"
       /\ q[4] # "" /\ q[5] # ""

\* C17: a GitHubProvider is constructed exactly for a url of the form
\* https://github.com/{owner}/{repo}, with or without a trailing slash; every
\* other url (another scheme, another host, more path segments, no repo)
\* raises at construction.
C17_UrlStrict ==
    BuiltGitHub => (~plast.raised <=> WellShapedUrl(plast.args.v["url"].v))

ValueOf(name) == plast.env.vars[name]
\* the first of the four variables, in their order, whose value is valid
DotenvToken ==
    IF IsValidGithubToken(ValueOf("GITHUB_TOKEN")) THEN ValueOf("GITHUB_TOKEN").text
    ELSE IF IsValidGithubToken(ValueOf("GH_TOKEN")) THEN ValueOf("GH_TOKEN").text
    ELSE IF IsValidGithubToken(ValueOf("GITHUB_ACCESS_TOKEN"))
         THEN ValueOf("GITHUB_ACCESS_TOKEN").text
    ELSE IF IsValidGithubToken(ValueOf("GH_ACCESS_TOKEN"))
         THEN ValueOf("GH_ACCESS_TOKEN").text
    ELSE ""
\* the valid password the credential helper printed, when it succeeded
GitcliToken ==
    LET pw == plast.env.git.passwords
        valid == {i \in DOMAIN pw : IsValidGithubToken(pw[i])}
    IN IF plast.env.git.how = "ok" /\ valid # {}
       THEN pw[CHOOSE i \in valid : \A j \in valid : i <= j].text
       ELSE ""
ConfiguredMethod == cfg.v["auth"].v["github"].v["method"]

\* C18: the token a GitHubProvider holds after construction follows from
\* auth.github.method: none for default; for dotenv the first valid value of
\* GITHUB_TOKEN, GH_TOKEN, GITHUB_ACCESS_TOKEN, GH_ACCESS_TOKEN, else none; for
\* gitcli the valid password of the credential helper, else none; for auto
\* the dotenv token when there is one and the gitcli token otherwise.
C18_TokenByMethod ==
    (BuiltGitHub /\ ~plast.raised /\ Has(cfg.v["auth"].v["github"], "method")) =>
        prov.p.token =
            CASE ConfiguredMethod = Str("default") -> ""
              [] ConfiguredMethod = Str("dotenv") -> DotenvToken
              [] ConfiguredMethod = Str("gitcli") -> GitcliToken
              [] ConfiguredMethod = Str("auto") ->
                   IF DotenvToken # "" THEN DotenvToken ELSE GitcliToken

\* with method auto, GITHUB_TOKEN set but too short and GH_TOKEN valid, the
\* provider holds the value of GH_TOKEN although the helper has a password
C18_Witness ==
    /\ BuiltGitHub /\ ~plast.raised
    /\ Has(cfg.v["auth"].v["github"], "method") /\ ConfiguredMethod = Str("auto")
    /\ ValueOf("GITHUB_TOKEN") = ShortTok /\ ValueOf("GH_TOKEN") = EnvTok(2)
    /\ plast.env.git = [how |-> "ok", passwords |-> <<GitTok>>]
    /\ prov.p.token = "E2"

\* the entry has no enabled field, or one that is not false
NotFalse(p) == ~Has(p, "enabled") \/ p.v["enabled"] # Bool(FALSE)

\* C19: get_enabled_providers(kind) returns the entries of get_providers(kind)
\* whose enabled field is absent or is anything but false, in configuration
\* order; only the entries with enabled = false are left out.
C19_EnabledNotFalse ==
    plast.op = "get_enabled_providers" =>
        plast.ret = SelectSeq(GetProviders(cfg, plast.args).v, NotFalse)

\* the kind and name of each entry of a kind that is not disabled, in order
Wanted(kind) ==
    LET q == SelectSeq(GetProviders(cfg, kind).v, NotFalse)
    IN [i \in DOMAIN q |-> <<kind, q[i].v["name"]>>]

\* C20: get_all_providers returns one provider for each enabled entry and
\* none for a disabled one, the GitHub providers first and then the local
\* ones, each kind in configuration order.
C20_AllProvidersInOrder ==
    (plast.op = "get_all_providers" /\ ~plast.raised) =>
        [i \in DOMAIN plast.ret |-> <<plast.ret[i].p.kind, plast.ret[i].p.name>>]
            = Wanted("github") \o Wanted("local")

\* the entries of a kind that carry a name
Named(kind, name) ==
    {i \in DOMAIN GetProviders(cfg, kind).v :
        MapGet(GetProviders(cfg, kind).v[i], "name", Null) = Str(name)}

\* C21: in a Config that passed validation no two entries of one kind have the
\* same name, so the name get_provider(config, kind, name) is given stands for
\* at most one entry of that kind.
C21_NamesUnique ==
    (alive /\ plast.op = "get_provider") =>
        Cardinality(Named(plast.args[1], plast.args[2])) <= 1

----------------------------------------------------------------------------
(* The token shape validation on its own *)

TokenLens == {0, 10, 19, 20, 35, 36, 39, 40, 41, 49, 50, 60}
TokenShapes ==
    {NoValue} \cup
    { t \in [text : {"t"}, len : TokenLens \ {0},
             prefix : github_prefixes \cup {"", "github_pat_"},
             chars : {"hex", "word", "wordnl", "other"}] :
        t.prefix # "" => (t.chars # "hex" /\ t.len >= 19) }

VInit ==
    /\ cfg = Null /\ alive = FALSE /\ last = NoOp /\ nops = 0
    /\ prov = Null /\ fs = Null /\ net = <<>> /\ plast = PNone

\* _is_valid_github_token(token)
VIsValidGithubToken(t) ==
    /\ plast.op = "none"
    /\ plast' = [op |-> "_is_valid_github_token", args |-> t, env |-> NoEnv,
                 ret |-> IsValidGithubToken(t), raised |-> FALSE,
                 pre |-> NoFile, sent |-> 0, n |-> 1]
    /\ UNCHANGED <<cvars, prov, fs, net>>

VNext == \E t \in TokenShapes : VIsValidGithubToken(t)

SpecTokenShape == VInit /\ [][VNext]_vars

\* the shapes a token is accepted for
Accepted(t) ==
    \/ t.prefix \in {"ghp_", "gho_", "ghu_", "ghs_", "ghr_"} /\ t.len >= 36
    \/ t.len = 40 /\ t.chars = "hex"
    \/ t.prefix = "github_pat_" /\ t.len >= 50
    \/ t.prefix = "" /\ t.len >= 20 /\ t.chars \in {"hex", "word"}

\* C22: the shape validation accepts a token exactly when it starts with ghp_,
\* gho_, ghu_, ghs_ or ghr_ and is at least 36 long, or is 40 lowercase
\* hexadecimal characters, or starts with github_pat_ and is at least 50 long,
\* or has none of these prefixes, is at least 20 long and consists of letters,
\* digits, underscore and hyphen only; it rejects every other string.
C22_ShapeExact ==
    plast.op = "_is_valid_github_token" => (plast.ret <=> Accepted(plast.args))

----------------------------------------------------------------------------
(* Claims about the requests and the tree of a GitHub provider *)

GitHubDownload == Downloaded /\ prov.kind = "github"
\* the requests of the last call
CallReqs == SubSeq(net, Len(net) - plast.sent + 1, Len(net))
\* the blobs of the repository that lie in resource_dir
BlobsInResourceDir ==
    {RepoTree[i].path : i \in {j \in DOMAIN RepoTree :
        /\ RepoTree[j].type = "blob"
        /\ RepoTree[j].path.dir # <<>>
        /\ <<RepoTree[j].path.dir[1]>> = prov.resource_dir}}

\* C23: download_folder of a GitHub provider transfers a tree entry only if it
\* is a blob whose path starts with resource_dir and "/": every file it
\* requests, returns or writes is such a blob, written in the target directory
\* at its path relative to resource_dir.
C23_OnlyBlobsInResourceDir ==
    GitHubDownload =>
        /\ \A i \in DOMAIN CallReqs :
              CallReqs[i].api = "raw" => CallReqs[i].file \in BlobsInResourceDir
        /\ \A f \in Returned : InDir(prov.resource_dir, f) \in BlobsInResourceDir
        /\ \A f \in DOMAIN After :
              (f \notin DOMAIN Before \/ After[f] # Before[f]) =>
                  InDir(prov.resource_dir, f) \in BlobsInResourceDir

\* resources/sub/n.txt was written at sub/n.txt and nothing at z.txt, the name
\* of a blob in the directory resources2
C23_Witness ==
    /\ GitHubDownload /\ SrcFiles[3] \in Returned
    /\ SrcFiles[3] \in DOMAIN After /\ After[SrcFiles[3]] = "src"
    /\ File(<<>>, "z", "txt") \notin DOMAIN After
    /\ \E i \in DOMAIN RepoTree : RepoTree[i].path = File(<<"resources2">>, "z", "txt")

ApiAndFile(q) == [i \in DOMAIN q |-> <<q[i].api, q[i].file>>]

\* C24: a download_folder call of an enabled GitHub provider that has prepared
\* its target directory issues one Git-Trees request, then one raw-content
\* request for each file that survives the filters, in that order, and no
\* other request.
C24_OneTreeRequest ==
    (GitHubDownload /\ ~Disabled(prov) /\ ~plast.raised) =>
        LET files == IF plast.env.trees = "ok" THEN Surviving ELSE <<>>
        IN ApiAndFile(CallReqs) =
             <<<<"trees", NoFile>>>> \o
             [i \in DOMAIN files |-> <<"raw", InDir(prov.resource_dir, files[i])>>]

\* a call that reached a.txt and sub/n.txt, one level down, sent three requests
C24_Witness ==
    /\ GitHubDownload /\ plast.sent = 3
    /\ SrcFiles[1] \in Returned /\ SrcFiles[3] \in Returned

\* C25: each tree, raw-content and contents request of a GitHub provider
\* carries the Authorization header exactly when a token was resolved; a
\* provider without a token sends its requests without it and its download
\* is carried out all the same.
C25_AuthIffToken ==
    prov.kind = "github" =>
        /\ \A i \in DOMAIN net :
              net[i].api \in {"trees", "raw", "contents"} =>
                  (net[i].auth <=> prov.token # "")
        /\ (Enumerated /\ prov.token = "") => plast.ret = SelectSeq(Surviving, Succeeded)

\* a provider without a token downloaded files with requests that carry no
\* Authorization header
C25_Witness ==
    /\ GitHubDownload /\ prov.token = "" /\ plast.ret # <<>>
    /\ plast.sent > 1 /\ \A i \in DOMAIN net : ~net[i].auth

\* C26: is_available of a GitHub provider sends its HEAD request without an
\* Authorization header, also when a token was resolved, and returns true
\* exactly when the provider is enabled and the answer is 200.
C26_AvailabilityUnauthenticated ==
    (prov.kind = "github" /\ plast.op = "is_available") =>
        /\ \A i \in DOMAIN CallReqs : ~CallReqs[i].auth
        /\ plast.ret <=> (~Disabled(prov) /\ plast.env.trees = "200")

\* C27: when the tree request of a GitHub download_folder fails or its answer
\* has no tree, the call returns an empty sequence and the target directory
\* still holds what it held before the call, with and without clean.
C27_NoEnumerationKeepsTarget ==
    (GitHubDownload /\ ~Disabled(prov) /\ ~plast.raised /\ plast.env.trees # "ok") =>
        /\ plast.ret = <<>>
        /\ After = Before

----------------------------------------------------------------------------
(* A local provider whose target directory may lie in its base_path *)

\* a path lies in a directory; its path relative to that directory
Under(d, f) == Len(f.dir) >= Len(d) /\ SubSeq(f.dir, 1, Len(d)) = d
RelativeTo(d, f) == [f EXCEPT !.dir = SubSeq(f.dir, Len(d) + 1, Len(f.dir))]

\* the order in which a directory scan yields a set of paths
RECURSIVE Listing(_)
Listing(S) ==
    IF S = {} THEN <<>>
    ELSE LET f == CHOOSE g \in S : TRUE IN <<f>> \o Listing(S \ {f})

\* the clean loop: whatever lies in the target directory is removed
CleanTree(files, target) ==
    [f \in {g \in DOMAIN files : ~Under(target, g)} |-> files[f]]

\* the copy loop: shutil.copy2 raises SameFileError when the target file is
\* the source file, and the file is skipped
RECURSIVE CopyFiles(_, _, _, _, _)
CopyFiles(files, base, target, rels, ret) ==
    IF rels = <<>> THEN [files |-> files, ret |-> ret]
    ELSE LET source_file == InDir(base, Head(rels))
             target_file == InDir(target, Head(rels))
         IN IF source_file = target_file
            THEN CopyFiles(files, base, target, Tail(rels), ret)
            ELSE CopyFiles([f \in (DOMAIN files) \cup {target_file} |->
                               IF f = target_file THEN files[source_file] ELSE files[f]],
                           base, target, Tail(rels), Append(ret, Head(rels)))

\* LocalProvider.download_folder on one tree of files with absolute paths; a
\* base_path with no file in it stands for one that does not exist
LocalTreeDownload(p, disk, args) ==
    IF Disabled(p) \/ ~\E f \in DOMAIN disk.files : Under(disk.base, f)
    THEN [files |-> disk.files, ret |-> <<>>]
    ELSE LET cleaned == IF args.clean THEN CleanTree(disk.files, disk.target)
                        ELSE disk.files
             found == Listing({RelativeTo(disk.base, f) :
                                 f \in {g \in DOMAIN cleaned : Under(disk.base, g)}})
         IN CopyFiles(cleaned, disk.base, disk.target,
                      FilterFilePaths(p, MatchingFiles(found, args)), <<>>)

\* base_path is res; the target directory is res itself, res/out or dst
Tree0 ==
    [f \in {InDir(<<"res">>, SrcFiles[i]) : i \in DOMAIN SrcFiles}
           \cup {File(<<"res", "out">>, "old", "txt"), File(<<"dst">>, "old", "txt")} |->
        IF f.name.s = "old" THEN "old" ELSE "src"]
TreeDisks ==
    [files : {Tree0}, base : {<<"res">>},
     target : {<<"res">>, <<"res", "out">>, <<"dst">>}]

LInit ==
    /\ prov \in {p \in Providers0 : p.kind = "local"}
    /\ fs \in TreeDisks /\ net = <<>> /\ plast = PNone
    /\ cfg = Null /\ alive = FALSE /\ last = NoOp /\ nops = 0

\* provider.download_folder(target_dir, file_pattern, recursive, clean)
LDownloadFolder(args) ==
    /\ plast.n < MaxCalls
    /\ LET r == LocalTreeDownload(prov, fs, args)
       IN /\ fs' = [fs EXCEPT !.files = r.files]
          /\ plast' = [op |-> "download_folder", args |-> args, env |-> NoEnv,
                       ret |-> r.ret, raised |-> FALSE, pre |-> fs, sent |-> 0,
                       n |-> plast.n + 1]
    /\ UNCHANGED <<prov, net, cvars>>

LNext == \E args \in DownloadArgs : LDownloadFolder(args)

SpecLocalTree == LInit /\ [][LNext]_vars

\* C28: download_folder of a local provider neither deletes nor changes a
\* file under base_path, wherever the target directory lies (base_path itself
\* and a directory inside it included) and whatever clean is.
C28_SourceUntouched ==
    Downloaded =>
        \A f \in DOMAIN plast.pre.files :
            Under(plast.pre.base, f) =>
                f \in DOMAIN fs.files /\ fs.files[f] = plast.pre.files[f]

----------------------------------------------------------------------------
(* The download command *)

\* what a run of the command leaves: the exit code, the target directory, the
\* requests, the total it counted, the files the providers reported, the
\* number of download_folder calls and whether providers were looked up
CmdResult(code, target, reqs, total, reported, calls, looked) ==
    [code |-> code, target |-> target, reqs |-> reqs, total |-> total,
     reported |-> reported, calls |-> calls, looked |-> looked]

\* a validation that lets every target path through
ValidateTargetDirLax(target, force) == TRUE

\* DownloadCommand._validate_target_dir
ValidateTargetDir(target, force) ==
    IF target.state = "missing" THEN TRUE
    ELSE IF target.state = "file" THEN FALSE
    ELSE ~(DOMAIN target.files # {} /\ ~force)

\* str.lower on the provider names of the model
Lower(name) == IF name = "All" THEN "all" ELSE name

\* the arguments download_folder gets from the options of the command
FolderArgs(argv) ==
    [file_pattern |-> argv.pattern, recursive |-> ~argv.no_recursive,
     clean |-> ~argv.no_clean]

\* [p for p in providers if p.enabled and p.is_available()], each provider
\* with its position, and the requests the is_available calls issued
Checked(p, i, a, rest) ==
    [ps |-> (IF a.ret THEN <<[p |-> p, i |-> i]>> ELSE <<>>) \o rest.ps,
     reqs |-> a.reqs \o rest.reqs]
RECURSIVE Available(_, _, _, _)
Available(providers, i, disk, env) ==
    IF i > Len(providers) THEN [ps |-> <<>>, reqs |-> <<>>]
    ELSE Checked(providers[i].p, i,
                 IsAvailable(providers[i].p, disk, env.avail[i]),
                 Available(providers, i + 1, disk, env))

\* what the loop of _download_from_all_providers keeps of one download_folder
\* call: a provider that raises is counted as failed
Tally(acc, r) ==
    [target |-> r.target,
     reqs |-> acc.reqs \o r.reqs,
     total |-> IF r.raised THEN acc.total ELSE acc.total + Len(r.ret),
     reported |-> IF r.raised THEN acc.reported ELSE acc.reported \o r.ret,
     calls |-> acc.calls + 1,
     failed |-> IF r.raised THEN acc.failed + 1 ELSE acc.failed]

\* the loop of _download_from_all_providers: every provider downloads into
\* the same target directory
RECURSIVE DownloadEach(_, _, _, _, _)
DownloadEach(ps, disk, args, env, acc) ==
    IF ps = <<>> THEN acc
    ELSE DownloadEach(Tail(ps), disk, args, env,
             Tally(acc, DownloadFolder(Head(ps).p, [disk EXCEPT !.target = acc.target],
                                       args, env.dl[Head(ps).i])))

\* the summary and the exit code of _download_from_all_providers
Summary(d) ==
    CmdResult(IF d.failed = 0 THEN 0 ELSE 1, d.target, d.reqs, d.total,
              d.reported, d.calls, TRUE)

\* _download_from_all_providers once the providers were filtered
DownloadFromEnabled(enabled_providers, disk, argv, env) ==
    IF enabled_providers.ps = <<>>
    THEN CmdResult(1, disk.target, enabled_providers.reqs, 0, <<>>, 0, TRUE)
    ELSE Summary(DownloadEach(enabled_providers.ps, disk, FolderArgs(argv), env,
                              [target |-> disk.target, reqs |-> enabled_providers.reqs,
                               total |-> 0, reported |-> <<>>, calls |-> 0,
                               failed |-> 0]))

\* _download_from_all_providers once get_all_providers has answered; its
\* exception is caught in handle
DownloadFromBuilt(built, disk, argv, env) ==
    IF built.raised \/ built.ret = <<>>
    THEN CmdResult(1, disk.target, <<>>, 0, <<>>, 0, TRUE)
    ELSE DownloadFromEnabled(Available(built.ret, 1, disk, env), disk, argv, env)

\* DownloadCommand._download_from_all_providers
DownloadFromAllProviders(c, disk, argv, env) ==
    DownloadFromBuilt(GetAllProviders(c, env.os), disk, argv, env)

\* DownloadCommand._show_available_providers: the requests it issues
ShownRequests(built, disk, env) ==
    IF built.raised THEN <<>> ELSE Available(built.ret, 1, disk, env).reqs
ShowAvailableProviders(c, disk, env) ==
    ShownRequests(GetAllProviders(c, env.os), disk, env)

\* DownloadCommand._get_provider
OrLocal(gh, c, provider_name, env) ==
    IF gh.raised \/ gh.ret # Null THEN gh
    ELSE GetProvider(c, "local", provider_name, env.os)
CmdGetProvider(c, provider_name, env) ==
    OrLocal(GetProvider(c, "github", provider_name, env.os), c, provider_name, env)

\* the end of _download_from_provider: the exit code after download_folder
Downloaded1(a, r) ==
    CmdResult(IF r.raised THEN 1 ELSE 0, r.target, a.reqs \o r.reqs,
              IF r.raised THEN 0 ELSE Len(r.ret),
              IF r.raised THEN <<>> ELSE r.ret, 1, TRUE)

\* _download_from_provider once is_available has answered
DownloadIfAvailable(a, p, disk, argv, env) ==
    IF ~a.ret THEN CmdResult(1, disk.target, a.reqs, 0, <<>>, 0, TRUE)
    ELSE Downloaded1(a, DownloadFolder(p, disk, FolderArgs(argv), env.dl[1]))

\* _download_from_provider once _get_provider has answered
DownloadFromFound(provider, c, disk, argv, env) ==
    IF provider.raised THEN CmdResult(1, disk.target, <<>>, 0, <<>>, 0, TRUE)
    ELSE IF provider.ret = Null
    THEN CmdResult(1, disk.target, ShowAvailableProviders(c, disk, env), 0, <<>>, 0, TRUE)
    ELSE DownloadIfAvailable(IsAvailable(provider.ret.p, disk, env.avail[1]),
                             provider.ret.p, disk, argv, env)

\* DownloadCommand._download_from_provider
DownloadFromProvider(c, disk, argv, env) ==
    DownloadFromFound(CmdGetProvider(c, argv.provider_name, env), c, disk, argv, env)

\* DownloadCommand.handle
Handle(c, disk, argv, env) ==
    IF ~Truthy(c) THEN CmdResult(1, disk.target, <<>>, 0, <<>>, 0, FALSE)
    ELSE IF ~ValidateTargetDir(disk.target, argv.force)
    THEN CmdResult(1, disk.target, <<>>, 0, <<>>, 0, FALSE)
    ELSE IF Lower(argv.provider_name) = "all"
    THEN DownloadFromAllProviders(c, disk, argv, env)
    ELSE DownloadFromProvider(c, disk, argv, env)

\* the configurations the command loads: none, one or two GitHub providers
\* (the second one reads the directory resources2 of the repository), one
\* with a URL that is rejected, and none or one local provider
OtherDir(entry) == MapPut(entry, "resource_dir", Str("resources2"))
CmdConfigs ==
    { Construct(EmptyMap).v } \cup
    { Construct(Map([providers |-> Providers(gh, loc), auth |-> AuthOf(Str("auto"))])).v :
        gh \in { <<>>, <<GEntry("g1", GoodUrl, "absent")>>,
                 <<GEntry("g1", GoodUrl, "absent"), OtherDir(GEntry("g2", GoodUrl, "true"))>>,
                 <<GEntry("g1", <<"https:", "", "gitlab.com", "o", "r">>, "absent")>> },
        loc \in { <<>>, <<LEntry("l1", "absent")>> } }

\* the command line
Argvs ==
    [provider_name : {"all", "All", "g1", "zz"}, pattern : {PatAll},
     force : BOOLEAN, no_recursive : {FALSE}, no_clean : BOOLEAN]
    \cup [provider_name : {"all", "l1"}, pattern : {PatExt("txt")},
          force : BOOLEAN, no_recursive : {TRUE}, no_clean : {FALSE}]

\* what the command finds outside the program: the environment variables and
\* git, the answer to each provider's HEAD request and what happens to each
\* provider's download
OkEnv == [trees |-> "ok", bad |-> "", how |-> "", disk |-> "ok"]
CmdEnvs ==
    [os : {FewestEnv},
     avail : {<<"200", "200", "200">>},
     dl : { <<OkEnv, OkEnv, OkEnv>>,
            <<[OkEnv EXCEPT !.disk = "denied"], OkEnv, OkEnv>>,
            <<OkEnv, [OkEnv EXCEPT !.trees = "error"], OkEnv>> }]
    \cup [os : {FewestEnv}, avail : {<<"error", "200", "200">>},
          dl : {<<OkEnv, OkEnv, OkEnv>>}]

DInit ==
    /\ cfg \in CmdConfigs /\ alive = TRUE /\ last = NoOp /\ nops = 0
    /\ prov = Null /\ fs \in Disks0 /\ net = <<>> /\ plast = PNone

\* one run of the download command
DHandle(argv, env) ==
    /\ plast.op = "none"
    /\ \E r \in {Handle(cfg, fs, argv, env)} :
          /\ fs' = [fs EXCEPT !.target = r.target]
          /\ net' = net \o r.reqs
          /\ plast' = [op |-> "download", args |-> argv,
                       env |-> [avail |-> env.avail, dl |-> env.dl],
                       ret |-> [code |-> r.code, total |-> r.total,
                                reported |-> r.reported, calls |-> r.calls,
                                looked |-> r.looked],
                       raised |-> FALSE, pre |-> fs, sent |-> Len(r.reqs), n |-> 1]
    /\ UNCHANGED <<cvars, prov>>

DNext == \E argv \in Argvs, env \in CmdEnvs : DHandle(argv, env)

SpecDownload == DInit /\ [][DNext]_vars

Ran == plast.op = "download"
Reported == {plast.ret.reported[i] : i \in DOMAIN plast.ret.reported}

\* C29: after the download command ran with the provider name all and default
\* options, every file a provider reported as downloaded, and so counted in
\* the total, exists in the target directory.
C29_ReportedFilesExist ==
    (/\ Ran /\ Lower(plast.args.provider_name) = "all"
     /\ plast.args.pattern = PatAll /\ ~plast.args.force
     /\ ~plast.args.no_recursive /\ ~plast.args.no_clean) =>
        /\ plast.ret.total = Len(plast.ret.reported)
        /\ \A f \in Reported : fs.target.state = "dir" /\ f \in DOMAIN fs.target.files

Refused ==
    \/ plast.pre.target.state = "file"
    \/ /\ plast.pre.target.state = "dir" /\ DOMAIN plast.pre.target.files # {}
       /\ ~plast.args.force

\* C30: the download command leaves a target directory that exists and holds
\* something as it is unless --force is given, and leaves a target path that
\* is a regular file as it is: in both cases it returns 1 and no provider was
\* looked up, no request was sent and download_folder was not called.
C30_RefusedTargetUntouched ==
    (Ran /\ Refused) =>
        /\ plast.ret.code = 1
        /\ fs = plast.pre
        /\ ~plast.ret.looked /\ plast.ret.calls = 0 /\ plast.sent = 0

\* the command was run without --force for all providers of a configuration
\* with providers, on a target directory that holds files, and they are there
C30_Witness ==
    /\ Ran /\ ~plast.args.force /\ plast.args.provider_name = "all"
    /\ plast.pre.target.files = OldFiles /\ fs.target.files = OldFiles
    /\ Len(GetProviders(cfg, "github").v) = 2
    /\ plast.ret.code = 1

====
